---- MODULE Spec2Model ----
(***************************************************************************)
(* Model of the calculation core of app.py (cable and conduit sizing per   *)
(* NBR 5410): otimizar_bitola_por_custo, validar_circuitos_agrupados,      *)
(* dimensionar_eletroduto, get_fator_k, calcular_corrente_cc_admissivel,   *)
(* calcular_icc_max and the thermal conformity comparison of the UI.       *)
(*                                                                         *)
(* The state is the module-level reference tables plus the last call made  *)
(* (chamada) and what it returned (retorno).  Every action is one call of  *)
(* one function with arguments drawn from bounded sets.                    *)
(*                                                                         *)
(* Numbers.  The source computes in floating point.  The model computes    *)
(* exactly: a real is a record [n, d, r] standing for (n / d) * sqrt(r),   *)
(* which is closed under the operations the source applies (products and   *)
(* quotients with sqrt(3), sqrt(t), sqrt(R^2 + X^2)).  float('inf') is the *)
(* record with d = 0.  Fixed-point inputs: CosPhi and CA_agrupamento are   *)
(* in tenths, DeltaV_MAX in tenths of a percent.                           *)
(***************************************************************************)
EXTENDS Integers, Sequences, FiniteSets, TLC

VARIABLES
    TABELA_CABOS_E_CUSTO,   \* bitola -> <<R_ohm_km, X_ohm_km, I_admissivel, Custo_por_metro>>
    TABELA_AREAS_CABOS,     \* bitola -> Area_mm2
    TABELA_ELETRODUTOS,     \* Bitola_mm -> [Area_Interna_mm2, Area_40_perc_mm2]
    OPCOES_BITOLA_NOMINAL,  \* sorted list of the keys of TABELA_AREAS_CABOS
    FATOR_K_ICC,            \* material -> isolamento -> k
    chamada,                \* the last call: [f |-> function name, ...arguments]
    retorno                 \* what the last call returned

vars == <<TABELA_CABOS_E_CUSTO, TABELA_AREAS_CABOS, TABELA_ELETRODUTOS,
          OPCOES_BITOLA_NOMINAL, FATOR_K_ICC, chamada, retorno>>

tabelas == <<TABELA_CABOS_E_CUSTO, TABELA_AREAS_CABOS, TABELA_ELETRODUTOS,
             OPCOES_BITOLA_NOMINAL, FATOR_K_ICC>>

-----------------------------------------------------------------------------
(* Bounds of the model.                                                    *)

MaxBitolaCabo == 3          \* conductor table keys are drawn from 1..MaxBitolaCabo
MaxIb == 2                  \* design current Ib [A] in 1..MaxIb
MaxL == 2                   \* circuit length L_metros [m] in 1..MaxL

MaxBitolaEscala == 4        \* validator: gauges and scale entries are drawn from 1..MaxBitolaEscala
MaxBitolaArea == 3          \* conduit sizing: area table keys are drawn from 1..MaxBitolaArea
MaxBitolaDados == 4         \* conduit sizing: gauges of a grouping are drawn from 1..MaxBitolaDados
MaxEletroduto == 2          \* conduit table keys (Bitola_mm) are drawn from 1..MaxEletroduto
MaxCondutores == 2          \* conductors per gauge in 1..MaxCondutores

ValoresR == {1, 2}          \* R_ohm_km of a table row
ValoresX == {1}             \* X_ohm_km of a table row
ValoresI == {1, 2}          \* I_admissivel of a table row [A]
ValoresCusto == {1, 2}      \* Custo_por_metro of a table row
ValoresCosPhi == {6, 10}    \* power factor in tenths (0.6 and 1.0: sin is rational)
ValoresVLL == {1}           \* line voltage [V]
ValoresDeltaV == {4, 5}     \* DeltaV_MAX in tenths of a percent
ValoresCA == {5, 10}        \* CA_agrupamento in tenths (0 < Ca <= 1)
Sistemas == {"Trifásico", "Monofásico"}
\* conductor materials and insulations a caller may name; the last of each is
\* not a key of FATOR_K_ICC
Materiais == {"Cobre", "Alumínio", "Ouro"}
Isolamentos == {"PVC (70°C)", "XLPE (90°C)", "EPR/HEPR (90°C)", "Borracha"}
ValoresVLLIcc == {1, 2}     \* V_LL of calcular_icc_max [V]
ValoresRCabo == {-1, 0, 3}  \* R_cabo [ohm]
ValoresXCabo == {0, 4}      \* X_cabo [ohm]
ValoresRFonte == {0, 1}     \* R_fonte_ohm
ValoresXFonte == {0, 1}     \* X_fonte_ohm
SistemasIcc == {"Trifásico", "Monofásico", "Bifásico"}
ValoresAreaNominal == {0, 1, 2}     \* Area_nominal_mm2
ValoresTempo == {-1, 0, 1, 10}      \* tempo_cc_seg in tenths of a second
ValoresIccEsperada == {0, 1, 115, 116, 364}     \* icc_max_esperada [A]
ValoresArea == {1, 2}       \* Area_mm2 of an insulated conductor
\* <<Area_Interna_mm2, Area_40_perc_mm2>> of a conduit (internal area > 0);
\* in the last the second is not 40% of the first
ValoresEletroduto == {<<5, 2>>, <<10, 4>>, <<5, 3>>}

-----------------------------------------------------------------------------
(* Python values.                                                          *)

\* None, and every optional value: the empty tuple (falsy, as None is).
None == <<>>

\* list(d.keys()): the keys of a dict, in the dict's own order
RECURSIVE keys(_)
keys(d) ==
    IF DOMAIN d = {} THEN <<>>
    ELSE LET k == CHOOSE x \in DOMAIN d : TRUE
         IN  <<k>> \o keys([x \in DOMAIN d \ {k} |-> d[x]])

\* lista with the element at position i removed
sem_posicao(lista, i) ==
    [j \in 1..(Len(lista) - 1) |-> IF j < i THEN lista[j] ELSE lista[j + 1]]

\* sorted(lista): ascending, duplicates kept
RECURSIVE sorted(_)
sorted(lista) ==
    IF lista = <<>> THEN <<>>
    ELSE LET i == CHOOSE j \in 1..Len(lista) :
                      \A k \in 1..Len(lista) : lista[j] <= lista[k]
         IN  <<lista[i]>> \o sorted(sem_posicao(lista, i))

-----------------------------------------------------------------------------
(* Exact reals (n / d) * sqrt(r), d > 0, r >= 1; d = 0 is float('inf').    *)

Real(n, d, r) == [n |-> n, d |-> d, r |-> r]
RInt(n) == Real(n, 1, 1)
inf == Real(1, 0, 1)
IsInf(a) == a.d = 0

\* math.sqrt(m) for an integer m >= 0
RSqrt(m) == IF m = 0 THEN RInt(0) ELSE Real(1, 1, m)

\* a == b
REq(a, b) ==
    IF IsInf(a) \/ IsInf(b) THEN IsInf(a) /\ IsInf(b)
    ELSE /\ (a.n >= 0) = (b.n >= 0) \/ (a.n = 0 /\ b.n = 0)
         /\ a.n * a.n * a.r * b.d * b.d = b.n * b.n * b.r * a.d * a.d

\* a < b
RLt(a, b) ==
    IF IsInf(a) THEN FALSE
    ELSE IF IsInf(b) THEN TRUE
    ELSE IF a.n < 0 /\ b.n >= 0 THEN TRUE
    ELSE IF a.n >= 0 /\ b.n < 0 THEN FALSE
    ELSE IF a.n >= 0
         THEN a.n * a.n * a.r * b.d * b.d < b.n * b.n * b.r * a.d * a.d
         ELSE a.n * a.n * a.r * b.d * b.d > b.n * b.n * b.r * a.d * a.d

\* a <= b
RLe(a, b) == ~RLt(b, a)

-----------------------------------------------------------------------------
(* FATOR_K_ICC as written in the source.                                   *)

FATOR_K_ICC_INICIAL ==
    ("Cobre" :> ("PVC (70°C)" :> 115 @@ "XLPE (90°C)" :> 176
                    @@ "EPR/HEPR (90°C)" :> 143))
    @@ ("Alumínio" :> ("PVC (70°C)" :> 74 @@ "XLPE (90°C)" :> 145
                          @@ "EPR/HEPR (90°C)" :> 112))

\* A table that failed to load: carregar_* return {} on any exception.
TabelaVazia == [b \in {} |-> 0]

-----------------------------------------------------------------------------
(* calcular_queda_tensao_percentual                                        *)

\* math.sqrt(max(0, 1.0 - CosPhi ** 2)), in tenths; CosPhi is drawn from the
\* values whose sine is a whole number of tenths.
SinPhi(CosPhi) ==
    LET m == IF 100 - CosPhi * CosPhi > 0 THEN 100 - CosPhi * CosPhi ELSE 0
    IN  CHOOSE s \in 0..10 : s * s = m

\* K * Ib * L_km * (R * cos + X * sin) / V_LL * 100, in percent, with
\* K = sqrt(3) for 'Trifásico' and K = 2 = sqrt(4) otherwise.
calcular_queda_tensao_percentual(Ib, L_metros, CosPhi, V_LL, R_ohm_km, X_ohm_km, sistema) ==
    LET K2 == IF sistema = "Trifásico" THEN 3 ELSE 4
        n  == Ib * L_metros * (R_ohm_km * CosPhi + X_ohm_km * SinPhi(CosPhi))
    IN  IF n = 0 THEN RInt(0) ELSE Real(n, 100 * V_LL, K2)

-----------------------------------------------------------------------------
(* otimizar_bitola_por_custo                                               *)

\* f"{bitola} mm²"
str_bitola(bitola) == <<bitola, " mm²">>

\* "if I_admissivel_sem_ca < I_CORRIGIDA: continue", as written wrongly with <=
corrente_insuficiente_ou_igual(I_admissivel_sem_ca, I_CORRIGIDA) ==
    RLe(RInt(I_admissivel_sem_ca), I_CORRIGIDA)

\* 1. Critério de Corrente Admissível: the gauge is skipped
corrente_insuficiente(I_admissivel_sem_ca, I_CORRIGIDA) ==
    RLt(RInt(I_admissivel_sem_ca), I_CORRIGIDA)

\* "if dv_perc <= DeltaV_MAX", as written wrongly with <
queda_conforme_estrita(dv_perc, DeltaV_MAX) ==
    RLt(dv_perc, Real(DeltaV_MAX, 10, 1))

\* 2. Critério de Queda de Tensão: the gauge is accepted
queda_conforme(dv_perc, DeltaV_MAX) ==
    RLe(dv_perc, Real(DeltaV_MAX, 10, 1))

otimizar_bitola_por_custo(Ib, L_metros, CosPhi, V_LL, DeltaV_MAX, CA_agrupamento, tabela_cabos, sistema) ==
    IF DOMAIN tabela_cabos = {}
    THEN [bitola |-> None, atende_corrente |-> FALSE]
    ELSE
    \* Ib / CA_agrupamento, CA_agrupamento in tenths and never 0
    LET I_CORRIGIDA == Real(Ib * 10, CA_agrupamento, 1)
        bitolas_ordenadas == sorted(keys(tabela_cabos))
        RECURSIVE laco(_, _)
        laco(i, melhor_solucao) ==
            IF i > Len(bitolas_ordenadas) THEN melhor_solucao
            ELSE
            LET bitola == bitolas_ordenadas[i]
                R == tabela_cabos[bitola][1]
                X == tabela_cabos[bitola][2]
                I_admissivel_sem_ca == tabela_cabos[bitola][3]
                Custo_metro == tabela_cabos[bitola][4]
                dv_perc == calcular_queda_tensao_percentual(
                               Ib, L_metros, CosPhi, V_LL, R, X, sistema)
            IN  IF corrente_insuficiente(I_admissivel_sem_ca, I_CORRIGIDA)
                THEN laco(i + 1, melhor_solucao)
                ELSE IF queda_conforme(dv_perc, DeltaV_MAX)
                THEN [bitola |-> str_bitola(bitola),
                      queda_tensao_perc |-> dv_perc,
                      custo_total |-> RInt(Custo_metro * L_metros),
                      atende_corrente |-> TRUE,
                      I_admissivel_utilizada |-> I_admissivel_sem_ca]
                ELSE laco(i + 1, [melhor_solucao EXCEPT !.atende_corrente = TRUE])
    IN  laco(1, [bitola |-> None, queda_tensao_perc |-> inf,
                 custo_total |-> inf, atende_corrente |-> FALSE])

-----------------------------------------------------------------------------
(* validar_circuitos_agrupados                                             *)

MSG_EXCEDE == "O agrupamento não deve exceder 3 bitolas nominais diferentes."
MSG_NAO_ENCONTRADA == "Erro na validação: Uma bitola selecionada não foi encontrada na lista nominal."
MSG_CONSECUTIVAS == "As bitolas agrupadas devem ser **consecutivas** na escala nominal (ex: 10, 16, 25). Não são permitidos 'saltos'."
MSG_OK == "Validação OK."

\* b in lista
contem(lista, b) == \E i \in 1..Len(lista) : lista[i] = b

\* lista.index(b): the first position of b (0-based); raises ValueError when
\* b is not in lista, which the caller tests with contem.
index(lista, b) ==
    (CHOOSE i \in 1..Len(lista) :
        lista[i] = b /\ \A j \in 1..(i - 1) : lista[j] # b) - 1

\* "if diferenca_indices != tamanho_agrupamento", comparing with the number of
\* gauges instead of that number minus one
tamanho_agrupamento_sem_menos_um(indices_selecionados) ==
    Len(indices_selecionados)

\* len(indices_selecionados) - 1
tamanho_agrupamento(indices_selecionados) ==
    Len(indices_selecionados) - 1

\* "if num_bitolas > 3", as written wrongly with >=
excede_limite_ou_igual(num_bitolas) == num_bitolas >= 3

\* if num_bitolas > 3
excede_limite(num_bitolas) == num_bitolas > 3

\* the try block raises ValueError: some selected gauge is not in the scale
levanta_ValueError(bitolas_agrupadas, todas_opcoes_bitola) ==
    \E i \in 1..Len(bitolas_agrupadas) :
        ~contem(todas_opcoes_bitola, bitolas_agrupadas[i])

\* "if num_bitolas > 1", as written wrongly with > 0: the scale is looked up
\* for a single gauge too
consulta_escala_com_uma(num_bitolas) == num_bitolas > 0

\* if num_bitolas > 1: only then are the gauges looked up in the scale
consulta_escala(num_bitolas) == num_bitolas > 1

\* bitolas_agrupadas_ is the collection supplied by the caller, in its order.
validar_circuitos_agrupados(bitolas_agrupadas_, todas_opcoes_bitola) ==
    LET bitolas_agrupadas == sorted(bitolas_agrupadas_)
        num_bitolas == Len(bitolas_agrupadas)
    IN  IF excede_limite(num_bitolas)
        THEN <<FALSE, MSG_EXCEDE>>
        ELSE IF consulta_escala(num_bitolas)
        THEN IF levanta_ValueError(bitolas_agrupadas, todas_opcoes_bitola)
             THEN <<FALSE, MSG_NAO_ENCONTRADA>>
             ELSE
             LET indices_selecionados ==
                     sorted([i \in 1..Len(bitolas_agrupadas) |->
                                index(todas_opcoes_bitola, bitolas_agrupadas[i])])
                 diferenca_indices ==
                     indices_selecionados[Len(indices_selecionados)]
                         - indices_selecionados[1]
             IN  IF diferenca_indices # tamanho_agrupamento(indices_selecionados)
                 THEN <<FALSE, MSG_CONSECUTIVAS>>
                 ELSE <<TRUE, MSG_OK>>
        ELSE <<TRUE, MSG_OK>>

-----------------------------------------------------------------------------
(* dimensionar_eletroduto                                                  *)

\* the sum of lines 195-201 with "* num_condutores" left out: each gauge of
\* the grouping counted as one conductor
RECURSIVE area_total_ocupada_um_condutor(_, _)
area_total_ocupada_um_condutor(dados_circuitos, areas_cabos) ==
    IF DOMAIN dados_circuitos = {} THEN 0
    ELSE LET bitola_mm2 == CHOOSE b \in DOMAIN dados_circuitos : TRUE
             resto == [b \in DOMAIN dados_circuitos \ {bitola_mm2} |->
                          dados_circuitos[b]]
         IN  (IF bitola_mm2 \in DOMAIN areas_cabos
              THEN areas_cabos[bitola_mm2]
              ELSE 0)
             + area_total_ocupada_um_condutor(resto, areas_cabos)

\* sum of areas_cabos[bitola] * num_condutores over the items of
\* dados_circuitos whose gauge is a key of areas_cabos (float(bitola_mm2)
\* keeps the value of a numeric key, so the lookup is by the same key).
RECURSIVE area_total_ocupada(_, _)
area_total_ocupada(dados_circuitos, areas_cabos) ==
    IF DOMAIN dados_circuitos = {} THEN 0
    ELSE LET bitola_mm2 == CHOOSE b \in DOMAIN dados_circuitos : TRUE
             num_condutores == dados_circuitos[bitola_mm2]
             resto == [b \in DOMAIN dados_circuitos \ {bitola_mm2} |->
                          dados_circuitos[b]]
         IN  (IF bitola_mm2 \in DOMAIN areas_cabos
              THEN areas_cabos[bitola_mm2] * num_condutores
              ELSE 0)
             + area_total_ocupada(resto, areas_cabos)

\* "if area_total_ocupada <= area_util_40_perc", as written wrongly with <
cabe_no_eletroduto_estrito(area_ocupada, area_util_40_perc) ==
    area_ocupada < area_util_40_perc

\* the loop of lines 207-218 without the fit test: the first conduit is taken
cabe_no_eletroduto_sempre(area_ocupada, area_util_40_perc) == TRUE

\* if area_total_ocupada <= area_util_40_perc
cabe_no_eletroduto(area_ocupada, area_util_40_perc) ==
    area_ocupada <= area_util_40_perc

\* "if not valido: return None, mensagem", left out
nunca_invalido(valido) == FALSE

\* if not valido
invalido(valido) == ~valido

dimensionar_eletroduto(dados_circuitos, areas_cabos, eletrodutos, todas_opcoes_bitola) ==
    LET bitolas_agrupadas == keys(dados_circuitos)
        validacao == validar_circuitos_agrupados(bitolas_agrupadas, todas_opcoes_bitola)
        valido == validacao[1]
        mensagem == validacao[2]
        area_ocupada == area_total_ocupada(dados_circuitos, areas_cabos)
        bitolas_eletrodutos_ordenadas == sorted(keys(eletrodutos))
        RECURSIVE laco(_)
        laco(i) ==
            IF i > Len(bitolas_eletrodutos_ordenadas) THEN <<None, mensagem>>
            ELSE
            LET bitola_mm == bitolas_eletrodutos_ordenadas[i]
                dados_eletroduto == eletrodutos[bitola_mm]
                area_util_40_perc == dados_eletroduto.Area_40_perc_mm2
            IN  IF cabe_no_eletroduto(area_ocupada, area_util_40_perc)
                THEN \* dados_eletroduto.copy() with three keys added; the
                     \* division is by an internal area that is never 0
                     <<[Area_Interna_mm2 |-> dados_eletroduto.Area_Interna_mm2,
                        Area_40_perc_mm2 |-> dados_eletroduto.Area_40_perc_mm2,
                        Bitola_mm |-> bitola_mm,
                        Area_Ocupada_Cabos |-> area_ocupada,
                        Taxa_Ocupacao_Perc |->
                            Real(area_ocupada * 100,
                                 dados_eletroduto.Area_Interna_mm2, 1)],
                       mensagem>>
                ELSE laco(i + 1)
    IN  IF invalido(valido) THEN <<None, mensagem>> ELSE laco(1)

\* The object that receives the writes of lines 214-217.  A reference is
\* either "entrada_da_tabela" (the dict held by the conduit table) or
\* "objeto_novo" (a dict nothing else refers to).
atribuicao_sem_copy(referencia) == referencia

\* melhor_eletroduto = dados_eletroduto.copy(): dict.copy() builds a new dict
copy(referencia) == "objeto_novo"

\* The conduit table as it stands when dimensionar_eletroduto returns: the
\* keys Bitola_mm, Area_Ocupada_Cabos and Taxa_Ocupacao_Perc are assigned
\* through melhor_eletroduto, and land in the table only if that name
\* refers to the table's own entry.
eletrodutos_apos_dimensionar(dados_circuitos, areas_cabos, eletrodutos, todas_opcoes_bitola) ==
    LET melhor_eletroduto == dimensionar_eletroduto(dados_circuitos, areas_cabos,
                                                    eletrodutos, todas_opcoes_bitola)[1]
        referencia == copy("entrada_da_tabela")
    IN  IF DOMAIN melhor_eletroduto = {} THEN eletrodutos
        ELSE IF referencia = "entrada_da_tabela"
             THEN [eletrodutos EXCEPT ![melhor_eletroduto.Bitola_mm] = melhor_eletroduto]
             ELSE eletrodutos

-----------------------------------------------------------------------------
(* get_fator_k, calcular_corrente_cc_admissivel, calcular_icc_max          *)

\* get_fator_k falling back to Cobre / PVC (70°C) as a whole whenever the
\* material or the insulation is not recognized
get_fator_k_padrao_unico(isolamento, material_condutor, fator_k_icc) ==
    IF /\ material_condutor \in DOMAIN fator_k_icc
       /\ isolamento \in DOMAIN fator_k_icc[material_condutor]
    THEN fator_k_icc[material_condutor][isolamento]
    ELSE fator_k_icc["Cobre"]["PVC (70°C)"]

\* fator_k_icc is the global FATOR_K_ICC the function reads
get_fator_k(isolamento, material_condutor, fator_k_icc) ==
    LET material_key == IF material_condutor \in DOMAIN fator_k_icc
                        THEN material_condutor ELSE "Cobre"
        isolamento_key == IF isolamento \in DOMAIN fator_k_icc[material_key]
                          THEN isolamento ELSE "PVC (70°C)"
    IN  fator_k_icc[material_key][isolamento_key]

\* (Area_nominal_mm2 * k_fator) / math.sqrt(tempo_cc_seg), tempo_cc_seg in
\* tenths of a second:  A * k / sqrt(t / 10)  =  (A * k / t) * sqrt(10 * t)
calcular_corrente_cc_admissivel(Area_nominal_mm2, tempo_cc_seg, k_fator) ==
    IF tempo_cc_seg <= 0 \/ Area_nominal_mm2 <= 0
    THEN RInt(0)
    ELSE Real(Area_nominal_mm2 * k_fator, tempo_cc_seg, 10 * tempo_cc_seg)

\* the divisor K of calcular_icc_max, squared, with the two branches swapped
K_quadrado_trocado(sistema) == IF sistema = "Trifásico" THEN 4 ELSE 3

\* the divisor K of calcular_icc_max, squared: sqrt(3) for 'Trifásico', else 2
K_quadrado(sistema) == IF sistema = "Trifásico" THEN 3 ELSE 4

\* returns <<Icc_max, Z_total>>;  V / (K * Z)  =  (V / (K^2 Z^2)) * sqrt(K^2 Z^2)
calcular_icc_max(V_LL, sistema, R_cabo, X_cabo, R_fonte_ohm, X_fonte_ohm) ==
    LET R_total == R_cabo + R_fonte_ohm
        X_total == X_cabo + X_fonte_ohm
        Z_total == RSqrt(R_total * R_total + X_total * X_total)
        m == K_quadrado(sistema) * (R_total * R_total + X_total * X_total)
    IN  IF REq(Z_total, RInt(0))
        THEN <<inf, Z_total>>
        ELSE <<Real(V_LL, m, m), Z_total>>

\* "if icc_max_esperada > Icc_admissivel", as written wrongly with >=
falha_termica_ou_igual(icc_max_esperada, Icc_admissivel) ==
    RLe(Icc_admissivel, RInt(icc_max_esperada))

\* Critério de Conformidade: if icc_max_esperada > Icc_admissivel
falha_termica(icc_max_esperada, Icc_admissivel) ==
    RLt(Icc_admissivel, RInt(icc_max_esperada))

\* the button "Calcular e Verificar Curto-Circuito"
verificar_curto_circuito(bitola_a_verificar, material_selecionado, isolamento_selecionado, tempo_cc, icc_max_esperada, fator_k_icc) ==
    LET Area_nominal_mm2 == bitola_a_verificar
        fator_k_usado == get_fator_k(isolamento_selecionado, material_selecionado,
                                     fator_k_icc)
        Icc_admissivel == calcular_corrente_cc_admissivel(
                              Area_nominal_mm2, tempo_cc, fator_k_usado)
    IN  [fator_k_usado |-> fator_k_usado,
         Icc_admissivel |-> Icc_admissivel,
         conforme |-> ~falha_termica(icc_max_esperada, Icc_admissivel)]

-----------------------------------------------------------------------------
(* The conductor tables of the model: any set of gauges, any row values.   *)

LinhasCabo == ValoresR \X ValoresX \X ValoresI \X ValoresCusto

TabelasCabos ==
    UNION {[B -> LinhasCabo] : B \in SUBSET (1..MaxBitolaCabo)}

-----------------------------------------------------------------------------
(* Calls.                                                                  *)

Otimizar ==
    \E Ib \in 1..MaxIb, L_metros \in 1..MaxL, CosPhi \in ValoresCosPhi,
       V_LL \in ValoresVLL, DeltaV_MAX \in ValoresDeltaV,
       CA_agrupamento \in ValoresCA, sistema \in Sistemas :
        /\ chamada' = [f |-> "otimizar_bitola_por_custo", Ib |-> Ib,
                       L_metros |-> L_metros, CosPhi |-> CosPhi, V_LL |-> V_LL,
                       DeltaV_MAX |-> DeltaV_MAX, CA_agrupamento |-> CA_agrupamento,
                       sistema |-> sistema]
        /\ retorno' = otimizar_bitola_por_custo(
                          Ib, L_metros, CosPhi, V_LL, DeltaV_MAX, CA_agrupamento,
                          TABELA_CABOS_E_CUSTO, sistema)
        /\ UNCHANGED tabelas

SemChamada == [f |-> "nenhuma"]

InitBitola ==
    /\ TABELA_CABOS_E_CUSTO \in TabelasCabos
    /\ TABELA_AREAS_CABOS = TabelaVazia
    /\ TABELA_ELETRODUTOS = TabelaVazia
    /\ OPCOES_BITOLA_NOMINAL = sorted(keys(TABELA_AREAS_CABOS))
    /\ FATOR_K_ICC = FATOR_K_ICC_INICIAL
    /\ chamada = SemChamada
    /\ retorno = SemChamada

NextBitola == Otimizar

SpecBitola == InitBitola /\ [][NextBitola]_vars

-----------------------------------------------------------------------------
(* Claims about otimizar_bitola_por_custo (SpecBitola).                    *)

OtimizarRetornou == chamada.f = "otimizar_bitola_por_custo"

\* The gauge's uncorrected ampacity is >= Ib / Ca:  I * Ca >= Ib.
AtendeCorrente(b) ==
    TABELA_CABOS_E_CUSTO[b][3] * chamada.CA_agrupamento >= chamada.Ib * 10

\* The gauge's voltage drop, computed with Ib.
QuedaDaBitola(b) ==
    calcular_queda_tensao_percentual(
        chamada.Ib, chamada.L_metros, chamada.CosPhi, chamada.V_LL,
        TABELA_CABOS_E_CUSTO[b][1], TABELA_CABOS_E_CUSTO[b][2], chamada.sistema)

\* The gauge's voltage drop is <= DeltaV_MAX.
AtendeQueda(b) ==
    RLe(QuedaDaBitola(b), Real(chamada.DeltaV_MAX, 10, 1))

Qualifica(b) == AtendeCorrente(b) /\ AtendeQueda(b)

\* C1: with a non-empty table and Ca > 0, a returned gauge is the smallest
\* gauge, in ascending nominal order, whose uncorrected ampacity is >= Ib/Ca
\* and whose voltage drop (computed with Ib) is <= DeltaV_MAX, both inclusive;
\* the result carries that gauge's drop, cost_per_meter * L_metros and its
\* uncorrected ampacity.
C1_MenorBitolaQueQualifica ==
    ( /\ OtimizarRetornou
      /\ DOMAIN TABELA_CABOS_E_CUSTO # {}
      /\ chamada.CA_agrupamento > 0
      /\ retorno.bitola # None )
    => \E b \in DOMAIN TABELA_CABOS_E_CUSTO :
          /\ retorno.bitola = str_bitola(b)
          /\ Qualifica(b)
          /\ \A m \in DOMAIN TABELA_CABOS_E_CUSTO : m < b => ~Qualifica(m)
          /\ REq(retorno.queda_tensao_perc, QuedaDaBitola(b))
          /\ REq(retorno.custo_total,
                 RInt(TABELA_CABOS_E_CUSTO[b][4] * chamada.L_metros))
          /\ retorno.I_admissivel_utilizada = TABELA_CABOS_E_CUSTO[b][3]

\* A gauge is returned after one smaller gauge was skipped on ampacity and
\* another on voltage drop, and the returned gauge sits exactly on both limits.
C1_Witness ==
    /\ OtimizarRetornou
    /\ chamada.CA_agrupamento > 0
    /\ retorno.bitola # None
    /\ \E b \in DOMAIN TABELA_CABOS_E_CUSTO :
          /\ retorno.bitola = str_bitola(b)
          /\ \E m \in DOMAIN TABELA_CABOS_E_CUSTO : m < b /\ ~AtendeCorrente(m)
          /\ \E m \in DOMAIN TABELA_CABOS_E_CUSTO :
                m < b /\ AtendeCorrente(m) /\ ~AtendeQueda(m)
          /\ TABELA_CABOS_E_CUSTO[b][3] * chamada.CA_agrupamento = chamada.Ib * 10
          /\ REq(QuedaDaBitola(b), Real(chamada.DeltaV_MAX, 10, 1))

\* C2: the gauge returned on success is the cheapest (lowest cost_per_meter *
\* length) among all gauges that satisfy the ampacity and voltage-drop limits.
C2_MaisBarata ==
    ( /\ OtimizarRetornou
      /\ DOMAIN TABELA_CABOS_E_CUSTO # {}
      /\ retorno.bitola # None )
    => \A m \in DOMAIN TABELA_CABOS_E_CUSTO :
          Qualifica(m) =>
             RLe(retorno.custo_total,
                 RInt(TABELA_CABOS_E_CUSTO[m][4] * chamada.L_metros))

\* C3: when no gauge is returned, atende_corrente is true exactly when some
\* gauge of the table has uncorrected ampacity >= Ib/Ca (false for the empty
\* table); when a gauge is returned the flag is true.
C3_FlagAtendeCorrente ==
    OtimizarRetornou =>
        IF retorno.bitola = None
        THEN retorno.atende_corrente
                <=> \E b \in DOMAIN TABELA_CABOS_E_CUSTO : AtendeCorrente(b)
        ELSE retorno.atende_corrente

\* No gauge is returned although some gauge meets the corrected ampacity
\* (exactly), because none meets the voltage-drop limit.
C3_Witness ==
    /\ OtimizarRetornou
    /\ retorno.bitola = None
    /\ retorno.atende_corrente
    /\ \E b \in DOMAIN TABELA_CABOS_E_CUSTO : AtendeCorrente(b)
    /\ \A b \in DOMAIN TABELA_CABOS_E_CUSTO :
          AtendeCorrente(b) =>
             TABELA_CABOS_E_CUSTO[b][3] * chamada.CA_agrupamento = chamada.Ib * 10

-----------------------------------------------------------------------------
(* Grouping validation and conduit sizing: tables, calls, specifications.  *)

\* carregar_e_preparar_areas_cabos: any set of gauges, areas drawn from valores
TabelasAreas(bitolas, valores) ==
    UNION {[B -> valores] : B \in SUBSET bitolas}

\* every ordering of every set of distinct gauges
ListasDistintas(bitolas) ==
    {l \in UNION {[1..n -> bitolas] : n \in 0..Cardinality(bitolas)} :
        \A i, j \in 1..Len(l) : i # j => l[i] # l[j]}

\* a row of carregar_e_preparar_eletrodutos (the label columns Bitola_pol and
\* Bitola_Display are carried unchanged and left out)
LinhaEletroduto(v) == [Area_Interna_mm2 |-> v[1], Area_40_perc_mm2 |-> v[2]]

TabelasEletrodutos ==
    UNION {[B -> {LinhaEletroduto(v) : v \in ValoresEletroduto}] :
              B \in SUBSET (1..MaxEletroduto)}

\* a caller-supplied mapping gauge -> number of conductors
DadosCircuitos(bitolas) ==
    UNION {[B -> 1..MaxCondutores] : B \in SUBSET bitolas}

Validar ==
    \E bitolas_agrupadas \in ListasDistintas(1..MaxBitolaEscala) :
        /\ chamada' = [f |-> "validar_circuitos_agrupados",
                       bitolas_agrupadas |-> bitolas_agrupadas]
        /\ retorno' = validar_circuitos_agrupados(bitolas_agrupadas,
                                                  OPCOES_BITOLA_NOMINAL)
        /\ UNCHANGED tabelas

Dimensionar ==
    \E dados_circuitos \in DadosCircuitos(1..MaxBitolaDados) :
        /\ chamada' = [f |-> "dimensionar_eletroduto",
                       dados_circuitos |-> dados_circuitos]
        /\ retorno' = dimensionar_eletroduto(dados_circuitos, TABELA_AREAS_CABOS,
                                             TABELA_ELETRODUTOS, OPCOES_BITOLA_NOMINAL)
        /\ TABELA_ELETRODUTOS' =
               eletrodutos_apos_dimensionar(dados_circuitos, TABELA_AREAS_CABOS,
                                            TABELA_ELETRODUTOS, OPCOES_BITOLA_NOMINAL)
        /\ UNCHANGED <<TABELA_CABOS_E_CUSTO, TABELA_AREAS_CABOS,
                       OPCOES_BITOLA_NOMINAL, FATOR_K_ICC>>

InitValidar ==
    /\ TABELA_CABOS_E_CUSTO = TabelaVazia
    /\ TABELA_AREAS_CABOS \in TabelasAreas(1..MaxBitolaEscala, {1})
    /\ TABELA_ELETRODUTOS = TabelaVazia
    /\ OPCOES_BITOLA_NOMINAL = sorted(keys(TABELA_AREAS_CABOS))
    /\ FATOR_K_ICC = FATOR_K_ICC_INICIAL
    /\ chamada = SemChamada
    /\ retorno = SemChamada

NextValidar == Validar

SpecValidar == InitValidar /\ [][NextValidar]_vars

InitEletroduto ==
    /\ TABELA_CABOS_E_CUSTO = TabelaVazia
    /\ TABELA_AREAS_CABOS \in TabelasAreas(1..MaxBitolaArea, ValoresArea)
    /\ TABELA_ELETRODUTOS \in TabelasEletrodutos
    /\ OPCOES_BITOLA_NOMINAL = sorted(keys(TABELA_AREAS_CABOS))
    /\ FATOR_K_ICC = FATOR_K_ICC_INICIAL
    /\ chamada = SemChamada
    /\ retorno = SemChamada

NextEletroduto == Dimensionar

SpecEletroduto == InitEletroduto /\ [][NextEletroduto]_vars

-----------------------------------------------------------------------------
(* Claims about validar_circuitos_agrupados (SpecValidar).                 *)

Elementos(lista) == {lista[i] : i \in 1..Len(lista)}

Escala == Elementos(OPCOES_BITOLA_NOMINAL)

\* No gauge of the scale lies strictly between two selected gauges without
\* being selected itself: the selection is a contiguous run of the scale.
Contiguo(S) ==
    \A x \in Escala :
        (\E a, b \in S : a < x /\ x < b) => x \in S

ValidarRetornou == chamada.f = "validar_circuitos_agrupados"

\* C4: for distinct gauges that all belong to the scale, the result is valid
\* exactly when there are at most 3 of them and they form a contiguous run of
\* the scale; more than 3 gives the count message, a gap gives the
\* consecutiveness message, whatever the order they are supplied in.
C4_ValidoSseContiguo ==
    ( /\ ValidarRetornou
      /\ Elementos(chamada.bitolas_agrupadas) \subseteq Escala )
    => LET S == Elementos(chamada.bitolas_agrupadas)
       IN  /\ retorno[1] <=> (Cardinality(S) <= 3 /\ Contiguo(S))
           /\ retorno[1] => retorno[2] = MSG_OK
           /\ Cardinality(S) > 3 => retorno = <<FALSE, MSG_EXCEDE>>
           /\ (Cardinality(S) <= 3 /\ ~Contiguo(S))
                 => retorno = <<FALSE, MSG_CONSECUTIVAS>>

\* Three gauges of the scale, supplied out of order, forming a run that does
\* not start at the first entry of the scale, are accepted.
C4_Witness ==
    /\ ValidarRetornou
    /\ Len(chamada.bitolas_agrupadas) = 3
    /\ chamada.bitolas_agrupadas[1] > chamada.bitolas_agrupadas[2]
    /\ Elementos(chamada.bitolas_agrupadas) \subseteq Escala
    /\ OPCOES_BITOLA_NOMINAL[1] \notin Elementos(chamada.bitolas_agrupadas)
    /\ retorno = <<TRUE, MSG_OK>>

\* C5: 2 or 3 distinct gauges with one absent from the scale give the
\* lookup-error message; the count rule comes first, so more than 3 gauges
\* give the count message even with an absent gauge among them.
C5_BitolaForaDaEscala ==
    ( /\ ValidarRetornou
      /\ ~(Elementos(chamada.bitolas_agrupadas) \subseteq Escala) )
    => LET n == Len(chamada.bitolas_agrupadas)
       IN  /\ n \in {2, 3} => retorno = <<FALSE, MSG_NAO_ENCONTRADA>>
           /\ n > 3 => retorno = <<FALSE, MSG_EXCEDE>>

\* Three gauges, one of them absent from the scale and the other two not
\* adjacent in it, give the lookup-error message.
C5_Witness ==
    /\ ValidarRetornou
    /\ Len(chamada.bitolas_agrupadas) = 3
    /\ \E a, b \in Elementos(chamada.bitolas_agrupadas) \cap Escala :
          \E x \in Escala : a < x /\ x < b
    /\ ~(Elementos(chamada.bitolas_agrupadas) \subseteq Escala)
    /\ retorno = <<FALSE, MSG_NAO_ENCONTRADA>>

-----------------------------------------------------------------------------
(* Claims about dimensionar_eletroduto (SpecEletroduto).                   *)

DimensionarRetornou == chamada.f = "dimensionar_eletroduto"

\* The validator accepts the grouping: at most 3 gauges and, when more than
\* one, all in the scale and contiguous in it.
Aceito(S) ==
    /\ Cardinality(S) <= 3
    /\ Cardinality(S) > 1 => (S \subseteq Escala /\ Contiguo(S))

\* Sum over the gauges 1..b of insulated area times count, a gauge that is
\* not in the grouping or not in the area table counting 0.
RECURSIVE SomaAreas(_)
SomaAreas(b) ==
    IF b = 0 THEN 0
    ELSE SomaAreas(b - 1)
         + (IF b \in DOMAIN chamada.dados_circuitos /\ b \in DOMAIN TABELA_AREAS_CABOS
            THEN TABELA_AREAS_CABOS[b] * chamada.dados_circuitos[b]
            ELSE 0)

AreaOcupada == SomaAreas(MaxBitolaDados)

Cabe(d) == TABELA_ELETRODUTOS[d].Area_40_perc_mm2 >= AreaOcupada

EhNone(x) == DOMAIN x = {}

\* C6: for an accepted grouping the conduit selected is the one of smallest
\* diameter whose 40%-fill area is >= the occupied area (equality selects).
C6_MenorEletrodutoQueCabe ==
    ( /\ DimensionarRetornou
      /\ Aceito(DOMAIN chamada.dados_circuitos) )
    => \A d \in DOMAIN TABELA_ELETRODUTOS :
          (Cabe(d) /\ \A e \in DOMAIN TABELA_ELETRODUTOS : e < d => ~Cabe(e))
          => /\ ~EhNone(retorno[1])
             /\ retorno[1].Bitola_mm = d
             /\ retorno[1].Area_40_perc_mm2 = TABELA_ELETRODUTOS[d].Area_40_perc_mm2
             /\ retorno[1].Area_Interna_mm2 = TABELA_ELETRODUTOS[d].Area_Interna_mm2

\* The larger conduit is selected with the occupied area exactly equal to its
\* 40%-fill area, the smaller conduit being too small.
C6_Witness ==
    /\ DimensionarRetornou
    /\ Aceito(DOMAIN chamada.dados_circuitos)
    /\ ~EhNone(retorno[1])
    /\ TABELA_ELETRODUTOS[retorno[1].Bitola_mm].Area_40_perc_mm2 = AreaOcupada
    /\ \E e \in DOMAIN TABELA_ELETRODUTOS : e < retorno[1].Bitola_mm /\ ~Cabe(e)

\* C7: exactly one of three outcomes: (a) grouping rejected: no conduit and
\* the validator's failure message, even if a conduit would fit; (b) grouping
\* accepted and no conduit fits: no conduit and 'Validação OK.'; (c) a conduit.
C7_TresResultados ==
    DimensionarRetornou =>
        IF ~Aceito(DOMAIN chamada.dados_circuitos)
        THEN /\ EhNone(retorno[1])
             /\ retorno[2] \in {MSG_EXCEDE, MSG_NAO_ENCONTRADA, MSG_CONSECUTIVAS}
             /\ retorno[2] = validar_circuitos_agrupados(
                                 keys(chamada.dados_circuitos),
                                 OPCOES_BITOLA_NOMINAL)[2]
        ELSE IF \A d \in DOMAIN TABELA_ELETRODUTOS : ~Cabe(d)
        THEN EhNone(retorno[1]) /\ retorno[2] = MSG_OK
        ELSE ~EhNone(retorno[1]) /\ retorno[2] = MSG_OK

\* A rejected grouping returns no conduit although every conduit would fit.
C7_Witness ==
    /\ DimensionarRetornou
    /\ ~Aceito(DOMAIN chamada.dados_circuitos)
    /\ DOMAIN TABELA_ELETRODUTOS # {}
    /\ \A d \in DOMAIN TABELA_ELETRODUTOS : Cabe(d)
    /\ EhNone(retorno[1])
    /\ retorno[2] = MSG_CONSECUTIVAS

\* C12: the occupied area is the sum over the grouping of insulated area
\* times conductor count, a gauge absent from the area table adding 0; this
\* sum is the value tested against the 40%-fill area of each conduit in
\* ascending diameter, it is reported in Area_Ocupada_Cabos, and
\* Taxa_Ocupacao_Perc is that sum / internal area of the selected conduit * 100.
C12_AreaOcupada ==
    ( /\ DimensionarRetornou
      /\ Aceito(DOMAIN chamada.dados_circuitos) )
    => IF EhNone(retorno[1])
       THEN \A d \in DOMAIN TABELA_ELETRODUTOS : ~Cabe(d)
       ELSE /\ retorno[1].Area_Ocupada_Cabos = AreaOcupada
            /\ Cabe(retorno[1].Bitola_mm)
            /\ \A e \in DOMAIN TABELA_ELETRODUTOS :
                   e < retorno[1].Bitola_mm => ~Cabe(e)
            /\ REq(retorno[1].Taxa_Ocupacao_Perc,
                   Real(AreaOcupada * 100,
                        TABELA_ELETRODUTOS[retorno[1].Bitola_mm].Area_Interna_mm2,
                        1))

\* two gauges of the table, one of them with two conductors, sized into the
\* second conduit
C12_Witness ==
    /\ DimensionarRetornou
    /\ ~EhNone(retorno[1])
    /\ Cardinality(DOMAIN chamada.dados_circuitos) = 2
    /\ \E b \in DOMAIN chamada.dados_circuitos : chamada.dados_circuitos[b] = 2
    /\ retorno[1].Area_Ocupada_Cabos >= 3
    /\ \E e \in DOMAIN TABELA_ELETRODUTOS : e < retorno[1].Bitola_mm

\* every row of the conduit table has a positive internal area and a 40%-fill
\* area equal to 0.40 of it
Tabela40PorCento ==
    \A d \in DOMAIN TABELA_ELETRODUTOS :
        /\ TABELA_ELETRODUTOS[d].Area_Interna_mm2 > 0
        /\ 100 * TABELA_ELETRODUTOS[d].Area_40_perc_mm2
               = 40 * TABELA_ELETRODUTOS[d].Area_Interna_mm2

\* C13: when the conduit table has 40%-fill area = 0.40 * internal area with
\* internal area > 0, every conduit dimensionar_eletroduto returns has
\* Taxa_Ocupacao_Perc <= 40, i.e. occupied area * 100 <= 40 * internal area.
C13_TaxaAte40 ==
    ( /\ DimensionarRetornou
      /\ Tabela40PorCento
      /\ ~EhNone(retorno[1]) )
    => /\ RLe(retorno[1].Taxa_Ocupacao_Perc, RInt(40))
       /\ retorno[1].Area_Ocupada_Cabos * 100
              <= 40 * retorno[1].Area_Interna_mm2

\* a conduit returned filled to exactly 40 %, a smaller one of the 40 % table
\* having been too small
C13_Witness ==
    /\ DimensionarRetornou
    /\ Tabela40PorCento
    /\ ~EhNone(retorno[1])
    /\ REq(retorno[1].Taxa_Ocupacao_Perc, RInt(40))
    /\ \E e \in DOMAIN TABELA_ELETRODUTOS : e < retorno[1].Bitola_mm /\ ~Cabe(e)

-----------------------------------------------------------------------------
(* Short-circuit functions: calls and specification.                       *)

GetFatorK ==
    \E isolamento \in Isolamentos, material_condutor \in Materiais :
        /\ chamada' = [f |-> "get_fator_k", isolamento |-> isolamento,
                       material_condutor |-> material_condutor]
        /\ retorno' = get_fator_k(isolamento, material_condutor, FATOR_K_ICC)
        /\ UNCHANGED tabelas

CalcularIccMax ==
    \E V_LL \in ValoresVLLIcc, sistema \in SistemasIcc,
       R_cabo \in ValoresRCabo, X_cabo \in ValoresXCabo,
       R_fonte_ohm \in ValoresRFonte, X_fonte_ohm \in ValoresXFonte :
        /\ chamada' = [f |-> "calcular_icc_max", V_LL |-> V_LL, sistema |-> sistema,
                       R_cabo |-> R_cabo, X_cabo |-> X_cabo,
                       R_fonte_ohm |-> R_fonte_ohm, X_fonte_ohm |-> X_fonte_ohm]
        /\ retorno' = calcular_icc_max(V_LL, sistema, R_cabo, X_cabo,
                                       R_fonte_ohm, X_fonte_ohm)
        /\ UNCHANGED tabelas

VerificarCurtoCircuito ==
    \E bitola_a_verificar \in ValoresAreaNominal, tempo_cc \in ValoresTempo,
       material_selecionado \in DOMAIN FATOR_K_ICC_INICIAL,
       isolamento_selecionado \in DOMAIN FATOR_K_ICC_INICIAL["Cobre"],
       icc_max_esperada \in ValoresIccEsperada :
        /\ chamada' = [f |-> "verificar_curto_circuito",
                       bitola_a_verificar |-> bitola_a_verificar,
                       tempo_cc |-> tempo_cc,
                       material_selecionado |-> material_selecionado,
                       isolamento_selecionado |-> isolamento_selecionado,
                       icc_max_esperada |-> icc_max_esperada]
        /\ retorno' = verificar_curto_circuito(
                          bitola_a_verificar, material_selecionado,
                          isolamento_selecionado, tempo_cc, icc_max_esperada,
                          FATOR_K_ICC)
        /\ UNCHANGED tabelas

InitIcc ==
    /\ TABELA_CABOS_E_CUSTO = TabelaVazia
    /\ TABELA_AREAS_CABOS = TabelaVazia
    /\ TABELA_ELETRODUTOS = TabelaVazia
    /\ OPCOES_BITOLA_NOMINAL = sorted(keys(TABELA_AREAS_CABOS))
    /\ FATOR_K_ICC = FATOR_K_ICC_INICIAL
    /\ chamada = SemChamada
    /\ retorno = SemChamada

NextIcc == GetFatorK \/ CalcularIccMax \/ VerificarCurtoCircuito

SpecIcc == InitIcc /\ [][NextIcc]_vars

-----------------------------------------------------------------------------
(* Claims about the short-circuit functions (SpecIcc).                     *)

GetFatorKRetornou == chamada.f = "get_fator_k"

MaterialConhecido == chamada.material_condutor \in {"Cobre", "Alumínio"}

IsolamentoConhecido ==
    chamada.isolamento \in {"PVC (70°C)", "XLPE (90°C)", "EPR/HEPR (90°C)"}

IccMaxRetornou == chamada.f = "calcular_icc_max"

R_total_chamada == chamada.R_cabo + chamada.R_fonte_ohm
X_total_chamada == chamada.X_cabo + chamada.X_fonte_ohm
Z2_chamada ==
    R_total_chamada * R_total_chamada + X_total_chamada * X_total_chamada

\* C9: no division by zero: the result is the infinity sentinel with
\* Z_total = 0 exactly when R_cabo + R_fonte = 0 and X_cabo + X_fonte = 0;
\* otherwise Z_total > 0 and the result is the finite V_LL / (K * Z_total),
\* K = sqrt(3) for 'Trifásico' and K = 2 for any other system.
C9_IccMaxSemDivisaoPorZero ==
    IccMaxRetornou =>
        LET Icc == retorno[1]
            Z == retorno[2]
            K2 == IF chamada.sistema = "Trifásico" THEN 3 ELSE 4
        IN  /\ ~IsInf(Z) /\ Z.n >= 0
            /\ Z.n * Z.n * Z.r = Z2_chamada * Z.d * Z.d
            /\ IsInf(Icc) <=> (R_total_chamada = 0 /\ X_total_chamada = 0)
            /\ IsInf(Icc) => Z.n = 0
            /\ ~IsInf(Icc) =>
                  /\ Z.n > 0
                  /\ Icc.n > 0
                  /\ Icc.n * Icc.n * Icc.r * K2 * Z2_chamada
                        = chamada.V_LL * chamada.V_LL * Icc.d * Icc.d

\* The cable and source resistances cancel and both reactances are 0: the
\* sentinel is returned with Z_total = 0.
C9_Witness ==
    /\ IccMaxRetornou
    /\ chamada.R_cabo # 0
    /\ R_total_chamada = 0 /\ X_total_chamada = 0
    /\ IsInf(retorno[1])
    /\ retorno[2].n = 0

VerificarRetornou == chamada.f = "verificar_curto_circuito"

Degenerado == chamada.tempo_cc <= 0 \/ chamada.bitola_a_verificar <= 0

\* area * k of the call
AreaVezesK ==
    chamada.bitola_a_verificar
        * FATOR_K_ICC_INICIAL[chamada.material_selecionado][chamada.isolamento_selecionado]

\* C10: the verdict is conforming exactly when Icc_expected <= Icc_admissible
\* (equality conforms), Icc_admissible being 0 when time <= 0 or area <= 0 and
\* area * k / sqrt(time) otherwise; so with degenerate input every positive
\* expected current is non-conforming.  (time is in tenths of a second:
\* e <= A k / sqrt(t / 10)  iff  e^2 t <= 10 (A k)^2.)
C10_VeredictoTermico ==
    VerificarRetornou =>
        LET adm == retorno.Icc_admissivel
            e == chamada.icc_max_esperada
        IN  /\ ~IsInf(adm)
            /\ Degenerado => (adm.n = 0 /\ (retorno.conforme <=> e <= 0))
            /\ ~Degenerado =>
                  /\ adm.n > 0
                  /\ adm.n * adm.n * adm.r * chamada.tempo_cc
                        = 10 * AreaVezesK * AreaVezesK * adm.d * adm.d
                  /\ retorno.conforme
                        <=> e * e * chamada.tempo_cc <= 10 * AreaVezesK * AreaVezesK

\* An expected current exactly equal to the admissible current conforms.
C10_Witness ==
    /\ VerificarRetornou
    /\ ~Degenerado
    /\ chamada.icc_max_esperada > 0
    /\ chamada.icc_max_esperada * chamada.icc_max_esperada * chamada.tempo_cc
          = 10 * AreaVezesK * AreaVezesK
    /\ retorno.conforme

-----------------------------------------------------------------------------
(* All the computation functions called in any order over one set of       *)
(* loaded tables.                                                          *)

ValoresKFator == {115, 143}

CalcularCorrenteCcAdmissivel ==
    \E Area_nominal_mm2 \in ValoresAreaNominal, tempo_cc_seg \in ValoresTempo,
       k_fator \in ValoresKFator :
        /\ chamada' = [f |-> "calcular_corrente_cc_admissivel",
                       Area_nominal_mm2 |-> Area_nominal_mm2,
                       tempo_cc_seg |-> tempo_cc_seg, k_fator |-> k_fator]
        /\ retorno' = calcular_corrente_cc_admissivel(Area_nominal_mm2,
                                                      tempo_cc_seg, k_fator)
        /\ UNCHANGED tabelas

\* a loaded conductor table: resistance falls, ampacity and cost rise with
\* the gauge
TabelaCabosCarregada == [b \in 1..2 |-> <<3 - b, 1, b, b>>]

\* a loaded insulated-area table
TabelaAreasCarregada == [b \in 1..2 |-> b]

\* a loaded conduit table whose 40 % column is 0.40 of the internal area
TabelaEletrodutosCarregada == [d \in 1..2 |-> LinhaEletroduto(<<5 * d, 2 * d>>)]

\* a conduit table whose smallest conduit has a negative 40 % column
TabelaEletrodutosAreaNegativa ==
    [d \in 1..2 |-> LinhaEletroduto(<<5 * d, 4 * d - 5>>)]

\* each table is either loaded or left empty by a failed load
Init ==
    /\ TABELA_CABOS_E_CUSTO \in {TabelaVazia, TabelaCabosCarregada}
    /\ TABELA_AREAS_CABOS \in {TabelaVazia, TabelaAreasCarregada}
    /\ TABELA_ELETRODUTOS \in {TabelaVazia, TabelaEletrodutosCarregada,
                               TabelaEletrodutosAreaNegativa}
    /\ OPCOES_BITOLA_NOMINAL = sorted(keys(TABELA_AREAS_CABOS))
    /\ FATOR_K_ICC = FATOR_K_ICC_INICIAL
    /\ chamada = SemChamada
    /\ retorno = SemChamada

Next ==
    \/ Otimizar
    \/ Validar
    \/ Dimensionar
    \/ GetFatorK
    \/ CalcularCorrenteCcAdmissivel
    \/ CalcularIccMax

Spec == Init /\ [][Next]_vars

\* C11: no call to otimizar_bitola_por_custo, validar_circuitos_agrupados,
\* dimensionar_eletroduto, get_fator_k, calcular_corrente_cc_admissivel or
\* calcular_icc_max, in any order, changes the conductor table, the
\* insulated-area table, the conduit table, the nominal scale or the
\* k-factor table (the occupied-area and fill-ratio fields go to a copy of
\* the selected conduit's row), and a call repeated with the same inputs
\* returns the same result.
C11_TabelasInalteradas ==
    [][/\ tabelas' = tabelas
       /\ (chamada' = chamada => retorno' = retorno)]_vars

\* dimensionar_eletroduto returned a conduit carrying a positive occupied
\* area, and the row of that conduit in the table has only its loaded columns
C11_Witness ==
    /\ chamada.f = "dimensionar_eletroduto"
    /\ ~EhNone(retorno[1])
    /\ retorno[1].Area_Ocupada_Cabos > 0
    /\ DOMAIN TABELA_ELETRODUTOS[retorno[1].Bitola_mm]
           = {"Area_Interna_mm2", "Area_40_perc_mm2"}

\* the diameters of the conduits whose 40%-fill area is not negative
EletrodutosNaoNegativos ==
    {d \in DOMAIN TABELA_ELETRODUTOS : TABELA_ELETRODUTOS[d].Area_40_perc_mm2 >= 0}

\* the grouping passed to dimensionar_eletroduto is one gauge that is neither
\* in the nominal scale nor in the insulated-area table
UmaBitolaAusente ==
    /\ DimensionarRetornou
    /\ \E b \in DOMAIN chamada.dados_circuitos :
          /\ DOMAIN chamada.dados_circuitos = {b}
          /\ b \notin Escala
          /\ b \notin DOMAIN TABELA_AREAS_CABOS

\* C14: validar_circuitos_agrupados accepts every selection of zero or one
\* gauge, in the scale or not, and gives the lookup-error message only for 2
\* or 3 gauges; so dimensionar_eletroduto called with one gauge absent from the
\* scale and from the area table does not fail: it returns the success message
\* and the conduit of smallest diameter whose 40%-fill area is >= 0, with
\* occupied area 0.
C14_UmaBitolaAceita ==
    /\ (ValidarRetornou /\ Len(chamada.bitolas_agrupadas) <= 1)
          => retorno = <<TRUE, MSG_OK>>
    /\ (ValidarRetornou /\ retorno[2] = MSG_NAO_ENCONTRADA)
          => /\ Len(chamada.bitolas_agrupadas) \in {2, 3}
             /\ ~(Elementos(chamada.bitolas_agrupadas) \subseteq Escala)
    /\ UmaBitolaAusente
          => /\ retorno[2] = MSG_OK
             /\ IF EletrodutosNaoNegativos = {}
                THEN EhNone(retorno[1])
                ELSE /\ ~EhNone(retorno[1])
                     /\ retorno[1].Bitola_mm \in EletrodutosNaoNegativos
                     /\ \A d \in EletrodutosNaoNegativos :
                            retorno[1].Bitola_mm <= d
                     /\ retorno[1].Area_Ocupada_Cabos = 0

\* one gauge absent from a non-empty scale, sized into the second conduit
\* because the first has a negative 40%-fill area
C14_Witness ==
    /\ UmaBitolaAusente
    /\ Escala # {}
    /\ ~EhNone(retorno[1])
    /\ retorno[1].Area_Ocupada_Cabos = 0
    /\ \E e \in DOMAIN TABELA_ELETRODUTOS :
          e < retorno[1].Bitola_mm /\ e \notin EletrodutosNaoNegativos

====
